---- MODULE Spec2Model ----
(***************************************************************************)
(* Kram: the metrics aggregation driver and the table renderer.            *)
(*                                                                         *)
(* The driver (main, listNamespaceMetrics, printNamespaceMetrics) is the   *)
(* same code in src/kram.go and src/main.go; the renderer (loadFunctions,  *)
(* runFunctions) is the one of src/kram.go.  The cluster API client        *)
(* (client-go, metrics) and the unit formatter (docker/go-units) are       *)
(* libraries: a failed List/Get returns an empty, non-nil result together  *)
(* with the error; a method called on a nil client panics.                 *)
(*                                                                         *)
(* Box-drawing characters are written with ASCII stand-ins, one character  *)
(* each: "|" for the vertical bar, "-" for the horizontal bar, "+" for a   *)
(* corner or a joint.  The colour escape sequences have no display width   *)
(* and are kept beside the text of a line (field style), not inside it.    *)
(***************************************************************************)
EXTENDS Integers, Sequences, FiniteSets, TLC

VARIABLES
    pc,               \* position of main
    argument,         \* flag.Arg(0): "" selects list mode
    config,           \* "unset" | "nil" | "ok"
    clientset,        \* "unset" | "nil" | "ok"
    metricsClientset, \* "unset" | "nil" | "ok"
    errorsList,       \* the slice of errors of main
    namespaces,       \* namespaces.Items
    nsIdx,            \* index of the namespace loop
    pods,             \* pods.Items of the last listing
    podIdx,           \* index of the pod loop of printNamespaceMetrics
    totals,           \* the six running totals of printNamespaceMetrics
    podTableData,     \* the table: row 1 is the header
    columnWidths,     \* loadFunctions: the width of each column
    alternateColor,   \* loadFunctions: the flag captured by printDataRow
    rowIdx,           \* runFunctions: index of the body row loop
    out,              \* lines written to the terminal, in order
    exitStatus,       \* -1 while running, 0 normal end, 2 panic
    spinnerIdx,       \* goSpinner: the index i of the next character
    fetchLog          \* history: every fetch call issued, with its outcome

vars == <<pc, argument, config, clientset, metricsClientset, errorsList,
          namespaces, nsIdx, pods, podIdx, totals, podTableData,
          columnWidths, alternateColor, rowIdx, out, exitStatus, spinnerIdx,
          fetchLog>>

driverVars == <<spinnerIdx, argument, config, clientset, metricsClientset, errorsList,
                namespaces, nsIdx, pods, podIdx, totals, exitStatus, fetchLog>>

renderVars == <<columnWidths, alternateColor, rowIdx, out>>

(***************************************************************************)
(* Bounds of the model.                                                    *)
(***************************************************************************)
MaxNamespaces == 2
MaxPods == 2
MaxCols == 2
MaxRows == 2
MaxSpins == 2

(***************************************************************************)
(* The backing data the cluster may hold.                                  *)
(***************************************************************************)
MiB == 1024 * 1024

NamespaceNames == <<"prod", "dev", "kube-system", "default">>

PodNames == <<"web-0", "api-7f9c", "job-1", "db-0">>

AppSpec == [name |-> "app", cpuRequest |-> 200, cpuLimit |-> 300,
            memRequest |-> 100 * MiB, memLimit |-> 150 * MiB]

DbSpec == [name |-> "db", cpuRequest |-> 500, cpuLimit |-> 0,
           memRequest |-> 64 * MiB, memLimit |-> 0]

AppUsage == [name |-> "app", cpu |-> 100, mem |-> 50 * MiB]

DbUsage == [name |-> "db", cpu |-> 30, mem |-> 20 * MiB]

ProxyUsage == [name |-> "proxy", cpu |-> 5, mem |-> 8 * MiB]

\* A pod: its declared containers (pod.Spec.Containers) and the usage
\* samples the metrics source holds for it (podMetrics.Containers).
PodKinds ==
    { [containers |-> <<AppSpec>>, usage |-> <<AppUsage>>],
      [containers |-> <<AppSpec, DbSpec>>, usage |-> <<AppUsage, ProxyUsage>>],
      [containers |-> <<AppSpec, DbSpec>>, usage |-> <<DbUsage, AppUsage>>],
      [containers |-> <<DbSpec>>, usage |-> <<ProxyUsage>>] }

SeqsUpTo(S, n) == UNION { [1..k -> S] : k \in 0..n }

\* The pod listings a namespace may answer: pods are named by position.
PodLists ==
    { [i \in 1..Len(ks) |-> [name |-> PodNames[i],
                             containers |-> ks[i].containers,
                             usage |-> ks[i].usage]] :
      ks \in SeqsUpTo(PodKinds, MaxPods) }

NamespaceLists == { SubSeq(NamespaceNames, 1, n) : n \in 0..MaxNamespaces }

(***************************************************************************)
(* Unit formatter.                                                         *)
(***************************************************************************)
RECURSIVE Pow(_, _)
Pow(b, e) == IF e = 0 THEN 1 ELSE b * Pow(b, e - 1)

RECURSIVE NumDigits(_)
NumDigits(n) == IF n < 10 THEN 1 ELSE 1 + NumDigits(n \div 10)

RECURSIVE Zeros(_)
Zeros(n) == IF n <= 0 THEN "" ELSE "0" \o Zeros(n - 1)

\* fmt.Sprintf("%d m", n)
FormatCPU(n) == ToString(n) \o " m"

\* go-units getSizeAndUnit: how many times size is divided by base.
RECURSIVE UnitIndex(_, _, _)
UnitIndex(size, base, limit) ==
    IF size >= base /\ limit > 0
    THEN 1 + UnitIndex(size \div base, base, limit - 1)
    ELSE 0

\* The fraction fr / 10^f without its trailing zeros, "" when it is zero.
RECURSIVE FracStr(_, _)
FracStr(fr, f) ==
    IF fr = 0 \/ f = 0 THEN ""
    ELSE IF fr % 10 = 0 THEN FracStr(fr \div 10, f - 1)
    ELSE "." \o Zeros(f - NumDigits(fr)) \o ToString(fr)

\* fmt "%.4g" of n / q (1 <= n / q < 10000, or n = 0): four significant
\* digits, round half to even, trailing zeros removed.
FormatG4(n, q) ==
    LET ip == n \div q
        d  == NumDigits(ip)
        f  == IF d >= 4 THEN 0 ELSE 4 - d
        s  == Pow(10, f)
        x  == (n % q) * s
        fl == x \div q
        r2 == 2 * (x % q)
        up == IF r2 > q \/ (r2 = q /\ fl % 2 = 1) THEN 1 ELSE 0
        R  == ip * s + fl + up
    IN  ToString(R \div s) \o FracStr(R % s, f)

BinaryAbbrs == <<"B", "KiB", "MiB", "GiB", "TiB", "PiB", "EiB", "ZiB", "YiB">>

DecimalAbbrs == <<"B", "kB", "MB", "GB", "TB", "PB", "EB", "ZB", "YB">>

CustomSize(size, base, abbrs) ==
    LET i == UnitIndex(size, base, Len(abbrs) - 1)
    IN  FormatG4(size, Pow(base, i)) \o abbrs[i + 1]

\* units.BytesSize(float64(n)): powers of 1024
BytesSize(n) == CustomSize(n, 1024, BinaryAbbrs)

\* units.HumanSize(float64(n)): powers of 1000
HumanSize(n) == CustomSize(n, 1000, DecimalAbbrs)

(***************************************************************************)
(* Errors, fetch results and the fetch history.                            *)
(***************************************************************************)
FetchError(op, ns, pod) == [op |-> op, ns |-> ns, pod |-> pod]

\* One call of the cluster API: n is the number of items it answered.
FetchCall(op, ns, pod, ok, n) == [op |-> op, ns |-> ns, pod |-> pod, ok |-> ok, n |-> n]

\* The positions of the calls of one operation in the history.
LogIndexes(op) == { i \in DOMAIN fetchLog : fetchLog[i].op = op }

\* Variant: the error is not kept.
DropError(errs, e) == errs

\* *errorsList = append(*errorsList, err)
RecordError(errs, e) == Append(errs, e)

\* What a List call answers: the items, or an error with an empty result.
FetchResults(S) ==
    { [ok |-> TRUE, items |-> x] : x \in S } \cup { [ok |-> FALSE, items |-> <<>>] }

\* podMetrics.Containers after PodMetricses(ns).Get(pod): empty on error.
PodMetricsGet(pod, failed) == IF failed THEN <<>> ELSE pod.usage

(***************************************************************************)
(* Record correlator and totals.                                           *)
(***************************************************************************)
ZeroTotals ==
    [cpuUsage |-> 0, cpuRequest |-> 0, cpuLimit |-> 0,
     memUsage |-> 0, memRequest |-> 0, memLimit |-> 0]

\* total... += usage / requests / limits of one matched pair
AddTotals(t, usage, container) ==
    [cpuUsage   |-> t.cpuUsage + usage.cpu,
     cpuRequest |-> t.cpuRequest + container.cpuRequest,
     cpuLimit   |-> t.cpuLimit + container.cpuLimit,
     memUsage   |-> t.memUsage + usage.mem,
     memRequest |-> t.memRequest + container.memRequest,
     memLimit   |-> t.memLimit + container.memLimit]

\* Variant: every sample is added, whatever its name.
RECURSIVE AccumulateAnyName(_, _, _)
AccumulateAnyName(t, container, metrics) ==
    IF metrics = <<>> THEN t
    ELSE AccumulateAnyName(AddTotals(t, Head(metrics), container), container, Tail(metrics))

\* listNamespaceMetrics: for _, containerMetrics := range podMetrics.Containers
RECURSIVE AccumulateContainer(_, _, _)
AccumulateContainer(t, container, metrics) ==
    IF metrics = <<>> THEN t
    ELSE AccumulateContainer(
             IF Head(metrics).name = container.name
             THEN AddTotals(t, Head(metrics), container)
             ELSE t,
             container, Tail(metrics))

\* listNamespaceMetrics: the metrics calls of one namespace in loop order,
\* one per pod and declared container: <<pod index, container index>>.
RECURSIVE MetricsCalls(_, _)
MetricsCalls(items, i) ==
    IF i > Len(items) THEN <<>>
    ELSE [j \in 1..Len(items[i].containers) |-> <<i, j>>] \o MetricsCalls(items, i + 1)

\* listNamespaceMetrics: the two nested loops over pods and containers;
\* fails[k] says whether the k-th metrics call failed.
RECURSIVE ListTotals(_, _, _, _)
ListTotals(t, items, calls, fails) ==
    IF calls = <<>> THEN t
    ELSE LET pod       == items[Head(calls)[1]]
             container == pod.containers[Head(calls)[2]]
         IN  ListTotals(
                 AccumulateContainer(t, container, PodMetricsGet(pod, Head(fails))),
                 items, Tail(calls), Tail(fails))

\* The errors the failed metrics calls append, in call order.
RECURSIVE MetricsErrors(_, _, _, _, _)
MetricsErrors(errs, ns, items, calls, fails) ==
    IF calls = <<>> THEN errs
    ELSE MetricsErrors(
             IF Head(fails)
             THEN RecordError(errs, FetchError("getPodMetrics", ns, items[Head(calls)[1]].name))
             ELSE errs,
             ns, items, Tail(calls), Tail(fails))

RECURSIVE MetricsLog(_, _, _, _, _)
MetricsLog(log, ns, items, calls, fails) ==
    IF calls = <<>> THEN log
    ELSE MetricsLog(
             Append(log, FetchCall("getPodMetrics", ns, items[Head(calls)[1]].name, ~Head(fails),
                                   Len(PodMetricsGet(items[Head(calls)[1]], Head(fails))))),
             ns, items, Tail(calls), Tail(fails))

\* listNamespaceMetrics: the row of one namespace
ListRow(ns, items, t) ==
    <<ns, ToString(Len(items)),
      FormatCPU(t.cpuUsage), FormatCPU(t.cpuRequest), FormatCPU(t.cpuLimit),
      BytesSize(t.memUsage), BytesSize(t.memRequest), BytesSize(t.memLimit)>>

\* Variant: a namespace whose totals are all zero gets no row.
AppendListRowIfTotals(table, ns, items, t) ==
    IF Len(items) # 0 /\ t # ZeroTotals THEN Append(table, ListRow(ns, items, t)) ELSE table

\* Variant: the row is appended for an empty listing too.
AppendListRowAlways(table, ns, items, t) == Append(table, ListRow(ns, items, t))

\* listNamespaceMetrics: if (len(pods.Items)) != 0 { ... append(row) }
AppendListRow(table, ns, items, t) ==
    IF Len(items) # 0 THEN Append(table, ListRow(ns, items, t)) ELSE table

\* var containerSpec corev1.Container: the zero value
NoContainer ==
    [name |-> "", cpuRequest |-> 0, cpuLimit |-> 0, memRequest |-> 0, memLimit |-> 0]

\* Variant: the first declared container, whatever its name.
FirstContainer(containers, name) ==
    IF containers = <<>> THEN NoContainer ELSE Head(containers)

\* printNamespaceMetrics: the first declared container of that name
RECURSIVE FindContainer(_, _)
FindContainer(containers, name) ==
    IF containers = <<>> THEN NoContainer
    ELSE IF Head(containers).name = name THEN Head(containers)
    ELSE FindContainer(Tail(containers), name)

\* printNamespaceMetrics: the row of one container
DetailRow(podName, usage, container) ==
    <<podName, usage.name,
      FormatCPU(usage.cpu), FormatCPU(container.cpuRequest), FormatCPU(container.cpuLimit),
      BytesSize(usage.mem), BytesSize(container.memRequest), BytesSize(container.memLimit)>>

\* printNamespaceMetrics: for _, containerMetrics := range podMetrics.Containers,
\* the rows it appends
RECURSIVE DetailRows(_, _, _)
DetailRows(table, pod, metrics) ==
    IF metrics = <<>> THEN table
    ELSE LET containerSpec == FindContainer(pod.containers, Head(metrics).name)
         IN  DetailRows(
                 IF containerSpec.name = "" THEN table
                 ELSE Append(table, DetailRow(pod.name, Head(metrics), containerSpec)),
                 pod, Tail(metrics))

\* Variant: the totals start again from zero at each pod.
RECURSIVE DetailTotalsPerPod(_, _, _)
DetailTotalsPerPod(t, pod, metrics) ==
    IF metrics = <<>> THEN ZeroTotals
    ELSE LET containerSpec == FindContainer(pod.containers, Head(metrics).name)
             rest          == DetailTotalsPerPod(t, pod, Tail(metrics))
         IN  IF containerSpec.name = "" THEN rest
             ELSE AddTotals(rest, Head(metrics), containerSpec)

\* printNamespaceMetrics: the same loop, the totals it accumulates
RECURSIVE DetailTotals(_, _, _)
DetailTotals(t, pod, metrics) ==
    IF metrics = <<>> THEN t
    ELSE LET containerSpec == FindContainer(pod.containers, Head(metrics).name)
         IN  DetailTotals(
                 IF containerSpec.name = "" THEN t
                 ELSE AddTotals(t, Head(metrics), containerSpec),
                 pod, Tail(metrics))

\* printNamespaceMetrics: the Total row
TotalRow(t) ==
    <<"Total", "",
      FormatCPU(t.cpuUsage), FormatCPU(t.cpuRequest), FormatCPU(t.cpuLimit),
      HumanSize(t.memUsage), HumanSize(t.memRequest), HumanSize(t.memLimit)>>

ListHeader ==
    <<"Namespace", "Pods", "CPU Usage", "CPU Request", "CPU Limit",
      "Mem Usage", "Mem Request", "Mem Limit">>

DetailHeader ==
    <<"Pods", "Container", "CPU Usage", "CPU Request", "CPU Limit",
      "Mem Usage", "Mem Request", "Mem Limit">>

Line(kind, text, style) == [kind |-> kind, text |-> text, style |-> style]

(***************************************************************************)
(* Table renderer (kram.go).                                               *)
(***************************************************************************)
RECURSIVE Repeat(_, _)
Repeat(c, n) == IF n <= 0 THEN "" ELSE c \o Repeat(c, n - 1)

\* loadFunctions: if cellLength > columnWidths[i] { columnWidths[i] = cellLength }
WidenRow(widths, row) ==
    [i \in 1..Len(widths) |->
        IF i <= Len(row) /\ Len(row[i]) > widths[i] THEN Len(row[i]) ELSE widths[i]]

\* loadFunctions: for _, row := range tableData
RECURSIVE WidenRows(_, _)
WidenRows(widths, rows) ==
    IF rows = <<>> THEN widths
    ELSE WidenRows(WidenRow(widths, Head(rows)), Tail(rows))

\* printDataRow: color = "\033[48;5;238m", 11 bytes (the escape byte is
\* written e)
GrayEscape == "e[48;5;238m"

\* Variant: the widths are taken from the cells as they are printed, the
\* colour escape of the gray rows (every second row from the first body row
\* on) counted with the text.
ComputeStyledWidths(tableData) ==
    WidenRows([i \in 1..Len(tableData[1]) |-> 0],
              [r \in DOMAIN tableData |->
                  [i \in DOMAIN tableData[r] |->
                      IF r % 2 = 0 THEN GrayEscape \o tableData[r][i]
                      ELSE tableData[r][i]]])

\* Variant: the header row is left out of the widths.
ComputeBodyWidths(tableData) ==
    WidenRows([i \in 1..Len(tableData[1]) |-> 0], Tail(tableData))

\* loadFunctions: columnWidths := make([]int, len(tableData[0])) and the loop
ComputeColumnWidths(tableData) ==
    WidenRows([i \in 1..Len(tableData[1]) |-> 0], tableData)

\* Variant: no padding.
NoPad(cell, w) == cell

\* fmt "%-<w>s": the cell, then spaces up to w characters
PadCell(cell, w) == cell \o Repeat(" ", w - Len(cell))

\* printDataRow: " %-<w>s " and the closing bar, for the cells from i on
RECURSIVE DataCells(_, _, _)
DataCells(row, widths, i) ==
    IF i > Len(row) THEN ""
    ELSE " " \o PadCell(row[i], widths[i]) \o " " \o "|" \o DataCells(row, widths, i + 1)

\* printDataRow: the text of one row
DataRowText(row, widths) == "|" \o DataCells(row, widths, 1)

\* printDataRow: color = "" when alternateColor, the gray background otherwise
RowStyle(alternate) == IF alternate THEN "plain" ELSE "gray"

\* print...DelimiterRow: strings.Repeat(bar, width+2), a joint between columns
RECURSIVE DelimiterCells(_, _)
DelimiterCells(widths, i) ==
    IF i > Len(widths) THEN ""
    ELSE Repeat("-", widths[i] + 2)
         \o (IF i < Len(widths) THEN "+" ELSE "")
         \o DelimiterCells(widths, i + 1)

DelimiterText(widths) == "+" \o DelimiterCells(widths, 1) \o "+"

\* main: the numbered lines of the error summary, from entry i on
ErrorText(e) == e.op \o " " \o e.ns \o " " \o e.pod

RECURSIVE ErrorLines(_, _)
ErrorLines(errs, i) ==
    IF i > Len(errs) THEN <<>>
    ELSE <<Line("error", ToString(i) \o ". " \o ErrorText(errs[i]), "plain")>>
         \o ErrorLines(errs, i + 1)

\* Variant: the title is printed whatever the length of the list.
ErrorSummaryAlways(errs) ==
    <<Line("errorTitle", "Error(s) :", "plain")>> \o ErrorLines(errs, 1)

\* main: if len(errorsList) > 0 { ... }
ErrorSummary(errs) ==
    IF Len(errs) > 0
    THEN <<Line("errorTitle", "Error(s) :", "plain")>> \o ErrorLines(errs, 1)
    ELSE <<>>

(***************************************************************************)
(* main: construction of the configuration and of the two clients.         *)
(***************************************************************************)
Init ==
    /\ pc = "buildConfig"
    /\ argument \in {"", "prod"}
    /\ config = "unset"
    /\ clientset = "unset"
    /\ metricsClientset = "unset"
    /\ errorsList = <<>>
    /\ namespaces = <<>>
    /\ nsIdx = 1
    /\ pods = <<>>
    /\ podIdx = 1
    /\ totals = ZeroTotals
    /\ podTableData = <<>>
    /\ columnWidths = <<>>
    /\ alternateColor = TRUE
    /\ rowIdx = 1
    /\ out = <<>>
    /\ exitStatus = -1
    /\ spinnerIdx = 0
    /\ fetchLog = <<>>

\* A nil pointer is dereferenced: the runtime panics, exit status 2.
Panic ==
    /\ pc' = "panic"
    /\ exitStatus' = 2

\* config, err := clientcmd.BuildConfigFromFlags("", kubeconfig)
BuildConfig ==
    /\ pc = "buildConfig"
    /\ \E ok \in BOOLEAN :
        /\ config' = IF ok THEN "ok" ELSE "nil"
        /\ errorsList' = IF ok THEN errorsList
                         ELSE RecordError(errorsList, FetchError("buildConfig", "", ""))
    /\ pc' = "newClientset"
    /\ UNCHANGED <<spinnerIdx, argument, clientset, metricsClientset, namespaces, nsIdx, pods,
                   podIdx, totals, podTableData, exitStatus, fetchLog>>
    /\ UNCHANGED renderVars

\* clientset, err := kubernetes.NewForConfig(config): copies *config first
NewClientset ==
    /\ pc = "newClientset"
    /\ \/ /\ config = "nil"
          /\ Panic
          /\ UNCHANGED <<clientset, errorsList>>
       \/ /\ config = "ok"
          /\ \E ok \in BOOLEAN :
              /\ clientset' = IF ok THEN "ok" ELSE "nil"
              /\ errorsList' = IF ok THEN errorsList
                               ELSE RecordError(errorsList, FetchError("newClientset", "", ""))
          /\ pc' = "newMetricsClientset"
          /\ UNCHANGED exitStatus
    /\ UNCHANGED <<spinnerIdx, argument, config, metricsClientset, namespaces, nsIdx, pods,
                   podIdx, totals, podTableData, fetchLog>>
    /\ UNCHANGED renderVars

\* metricsClientset, err := metricsv.NewForConfig(config)
NewMetricsClientset ==
    /\ pc = "newMetricsClientset"
    /\ \E ok \in BOOLEAN :
        /\ metricsClientset' = IF ok THEN "ok" ELSE "nil"
        /\ errorsList' = IF ok THEN errorsList
                         ELSE RecordError(errorsList, FetchError("newMetricsClientset", "", ""))
    /\ pc' = "fetch"
    /\ UNCHANGED <<spinnerIdx, argument, config, clientset, namespaces, nsIdx, pods,
                   podIdx, totals, podTableData, exitStatus, fetchLog>>
    /\ UNCHANGED renderVars

(***************************************************************************)
(* List mode: main's namespace listing and listNamespaceMetrics.           *)
(***************************************************************************)
\* namespaces, err := clientset.CoreV1().Namespaces().List(...), then the
\* call of listNamespaceMetrics up to its loop
ListNamespacesFrom(lists) ==
    /\ pc = "fetch"
    /\ argument = ""
    /\ \/ /\ clientset = "nil"
          /\ Panic
          /\ UNCHANGED <<errorsList, namespaces, podTableData, fetchLog, out>>
       \/ /\ clientset = "ok"
          /\ \E r \in FetchResults(lists) :
              /\ namespaces' = r.items
              /\ errorsList' = IF r.ok THEN errorsList
                               ELSE RecordError(errorsList, FetchError("listNamespaces", "", ""))
              /\ fetchLog' = Append(fetchLog, FetchCall("listNamespaces", "", "", r.ok, Len(r.items)))
              /\ pc' = IF r.items = <<>> THEN "load" ELSE "namespaces"
          /\ out' = Append(out, Line("blank", "", "plain"))
          /\ podTableData' = <<ListHeader>>
          /\ UNCHANGED exitStatus
    /\ UNCHANGED <<spinnerIdx, argument, config, clientset, metricsClientset, nsIdx, pods,
                   podIdx, totals, columnWidths, alternateColor, rowIdx>>

ListNamespaces == ListNamespacesFrom(NamespaceLists)

\* listNamespaceMetrics: one iteration of for _, namespace := range namespaces
NamespaceIterFrom(podLists) ==
    /\ pc = "namespaces"
    /\ \E r \in FetchResults(podLists) :
        LET ns    == namespaces[nsIdx]
            items == r.items
            calls == MetricsCalls(items, 1)
            errs1 == IF r.ok THEN errorsList
                     ELSE RecordError(errorsList, FetchError("listPods", ns, ""))
            log1  == Append(fetchLog, FetchCall("listPods", ns, "", r.ok, Len(r.items)))
        IN  /\ pods' = items
            /\ \/ /\ calls # <<>>
                  /\ metricsClientset = "nil"
                  /\ Panic
                  /\ errorsList' = errs1
                  /\ fetchLog' = log1
                  /\ UNCHANGED <<nsIdx, podTableData>>
               \/ /\ calls = <<>> \/ metricsClientset = "ok"
                  /\ \E fails \in [1..Len(calls) -> BOOLEAN] :
                      /\ errorsList' = MetricsErrors(errs1, ns, items, calls, fails)
                      /\ fetchLog' = MetricsLog(log1, ns, items, calls, fails)
                      /\ podTableData' =
                             AppendListRow(podTableData, ns, items,
                                           ListTotals(ZeroTotals, items, calls, fails))
                  /\ nsIdx' = nsIdx + 1
                  /\ pc' = IF nsIdx = Len(namespaces) THEN "load" ELSE "namespaces"
                  /\ UNCHANGED exitStatus
    /\ UNCHANGED <<spinnerIdx, argument, config, clientset, metricsClientset, namespaces,
                   podIdx, totals>>
    /\ UNCHANGED renderVars

NamespaceIter == NamespaceIterFrom(PodLists)

(***************************************************************************)
(* Detail mode: printNamespaceMetrics.                                     *)
(***************************************************************************)
\* printNamespaceMetrics: the Total row closes the table
CloseDetailTable(table, t) == Append(table, TotalRow(t))

\* main's else branch and printNamespaceMetrics up to its loop
DetailListPodsFrom(podLists) ==
    /\ pc = "fetch"
    /\ argument # ""
    /\ out' = Append(out, Line("blank", "", "plain"))
    /\ \/ /\ clientset = "nil"
          /\ Panic
          /\ UNCHANGED <<errorsList, pods, podTableData, fetchLog>>
       \/ /\ clientset = "ok"
          /\ \E r \in FetchResults(podLists) :
              /\ pods' = r.items
              /\ errorsList' = IF r.ok THEN errorsList
                               ELSE RecordError(errorsList, FetchError("listPods", argument, ""))
              /\ fetchLog' = Append(fetchLog, FetchCall("listPods", argument, "", r.ok, Len(r.items)))
              /\ podTableData' = IF r.items = <<>>
                                 THEN CloseDetailTable(<<DetailHeader>>, ZeroTotals)
                                 ELSE <<DetailHeader>>
              /\ pc' = IF r.items = <<>> THEN "load" ELSE "pods"
          /\ UNCHANGED exitStatus
    /\ UNCHANGED <<spinnerIdx, argument, config, clientset, metricsClientset, namespaces, nsIdx,
                   podIdx, totals, columnWidths, alternateColor, rowIdx>>

DetailListPods == DetailListPodsFrom(PodLists)

\* printNamespaceMetrics: one iteration of for _, pod := range pods.Items
PodIter ==
    /\ pc = "pods"
    /\ \/ /\ metricsClientset = "nil"
          /\ Panic
          /\ UNCHANGED <<errorsList, podIdx, totals, podTableData, fetchLog>>
       \/ /\ metricsClientset = "ok"
          /\ \E failed \in BOOLEAN :
              LET pod     == pods[podIdx]
                  metrics == PodMetricsGet(pod, failed)
                  table1  == DetailRows(podTableData, pod, metrics)
                  t1      == DetailTotals(totals, pod, metrics)
                  last    == podIdx = Len(pods)
              IN  /\ errorsList' = IF failed
                                   THEN RecordError(errorsList,
                                            FetchError("getPodMetrics", argument, pod.name))
                                   ELSE errorsList
                  /\ fetchLog' = Append(fetchLog,
                                     FetchCall("getPodMetrics", argument, pod.name, ~failed, Len(metrics)))
                  /\ totals' = t1
                  /\ podTableData' = IF last THEN CloseDetailTable(table1, t1) ELSE table1
                  /\ pc' = IF last THEN "load" ELSE "pods"
          /\ podIdx' = podIdx + 1
          /\ UNCHANGED exitStatus
    /\ UNCHANGED <<spinnerIdx, argument, config, clientset, metricsClientset, namespaces, nsIdx, pods>>
    /\ UNCHANGED renderVars

(***************************************************************************)
(* Rendering: loadFunctions, runFunctions, and main's error summary.       *)
(***************************************************************************)
\* Variant: the loop ranges over the whole table.
WholeTable(tableData) == tableData

\* runFunctions: for _, row := range podTableData[1:]
BodyRows(tableData) == Tail(tableData)

\* Variant: the flag is kept from the table printed before.
StaleAlternateColor == alternateColor

\* loadFunctions: alternateColor := true
FreshAlternateColor == TRUE

LoadFunctions ==
    /\ pc = "load"
    /\ columnWidths' = ComputeColumnWidths(podTableData)
    /\ alternateColor' = FreshAlternateColor
    /\ pc' = IF argument = "" THEN "top" ELSE "title"
    /\ UNCHANGED <<rowIdx, out, podTableData>>
    /\ UNCHANGED driverVars

\* printNamespaceMetrics: fmt.Printf("Metrics for Namespace: %s\n", namespace.Name)
PrintTitle ==
    /\ pc = "title"
    /\ out' = Append(out, Line("title", "Metrics for Namespace: " \o argument, "plain"))
    /\ pc' = "top"
    /\ UNCHANGED <<columnWidths, alternateColor, rowIdx, podTableData>>
    /\ UNCHANGED driverVars

PrintTopDelimiterRow ==
    /\ pc = "top"
    /\ out' = Append(out, Line("top", DelimiterText(columnWidths), "plain"))
    /\ pc' = "header"
    /\ UNCHANGED <<columnWidths, alternateColor, rowIdx, podTableData>>
    /\ UNCHANGED driverVars

\* Variant: the header is printed with widths taken again from the header
\* row alone.
PrintHeaderReload ==
    /\ pc = "header"
    /\ columnWidths' = ComputeColumnWidths(<<podTableData[1]>>)
    /\ out' = Append(out, Line("row", DataRowText(podTableData[1], columnWidths'),
                               RowStyle(alternateColor)))
    /\ alternateColor' = ~alternateColor
    /\ pc' = "delimiter"
    /\ UNCHANGED <<rowIdx, podTableData>>
    /\ UNCHANGED driverVars

\* runFunctions: printDataRow(podTableData[0])
PrintHeader ==
    /\ pc = "header"
    /\ out' = Append(out, Line("row", DataRowText(podTableData[1], columnWidths),
                               RowStyle(alternateColor)))
    /\ alternateColor' = ~alternateColor
    /\ pc' = "delimiter"
    /\ UNCHANGED <<columnWidths, rowIdx, podTableData>>
    /\ UNCHANGED driverVars

PrintDelimiterRow ==
    /\ pc = "delimiter"
    /\ out' = Append(out, Line("delimiter", DelimiterText(columnWidths), "plain"))
    /\ rowIdx' = 1
    /\ pc' = "rows"
    /\ UNCHANGED <<columnWidths, alternateColor, podTableData>>
    /\ UNCHANGED driverVars

\* runFunctions: printDataRow(row) for the next body row
PrintBodyRow ==
    /\ pc = "rows"
    /\ rowIdx <= Len(BodyRows(podTableData))
    /\ out' = Append(out, Line("row", DataRowText(BodyRows(podTableData)[rowIdx], columnWidths),
                               RowStyle(alternateColor)))
    /\ alternateColor' = ~alternateColor
    /\ rowIdx' = rowIdx + 1
    /\ UNCHANGED <<pc, columnWidths, podTableData>>
    /\ UNCHANGED driverVars

PrintBottomDelimiterRow ==
    /\ pc = "rows"
    /\ rowIdx > Len(BodyRows(podTableData))
    /\ out' = Append(out, Line("bottom", DelimiterText(columnWidths), "plain"))
    /\ pc' = "summary"
    /\ UNCHANGED <<columnWidths, alternateColor, rowIdx, podTableData>>
    /\ UNCHANGED driverVars

\* main: the error summary, then the normal end of the process
PrintErrors ==
    /\ pc = "summary"
    /\ out' = out \o ErrorSummary(errorsList)
    /\ pc' = "exited"
    /\ exitStatus' = 0
    /\ UNCHANGED <<spinnerIdx, argument, config, clientset, metricsClientset, errorsList, namespaces,
                   nsIdx, pods, podIdx, totals, fetchLog>>
    /\ UNCHANGED <<columnWidths, alternateColor, rowIdx, podTableData>>

Render ==
    \/ LoadFunctions
    \/ PrintTopDelimiterRow
    \/ PrintHeader
    \/ PrintDelimiterRow
    \/ PrintBodyRow
    \/ PrintBottomDelimiterRow

Next ==
    \/ BuildConfig
    \/ NewClientset
    \/ NewMetricsClientset
    \/ ListNamespaces
    \/ NamespaceIter
    \/ DetailListPods
    \/ PodIter
    \/ PrintTitle
    \/ Render
    \/ PrintErrors

Spec == Init /\ [][Next]_vars

(***************************************************************************)
(* List mode over a cluster of up to ScenarioNamespaces namespaces whose   *)
(* pods all run the single container app.                                  *)
(***************************************************************************)
ScenarioNamespaces == MaxNamespaces + 1

ScenarioNamespaceLists == { SubSeq(NamespaceNames, 1, n) : n \in 0..ScenarioNamespaces }

ScenarioPodLists ==
    { p \in PodLists : \A i \in DOMAIN p : p[i].containers = <<AppSpec>> }

ScenarioInit == Init /\ argument = ""

ScenarioListNamespaces == ListNamespacesFrom(ScenarioNamespaceLists)

ScenarioNamespaceIter == NamespaceIterFrom(ScenarioPodLists)

ScenarioNext ==
    \/ BuildConfig
    \/ NewClientset
    \/ NewMetricsClientset
    \/ ScenarioListNamespaces
    \/ ScenarioNamespaceIter
    \/ Render
    \/ PrintErrors

ScenarioSpec == ScenarioInit /\ [][ScenarioNext]_vars

(***************************************************************************)
(* Both modes over one namespace whose pods may declare two containers of  *)
(* one name, or answer two usage samples of one name.                      *)
(***************************************************************************)
AppAgainSpec ==
    [name |-> "app", cpuRequest |-> 50, cpuLimit |-> 80,
     memRequest |-> 32 * MiB, memLimit |-> 64 * MiB]

AppAgainUsage == [name |-> "app", cpu |-> 7, mem |-> 4 * MiB]

DuplicatePodKinds ==
    PodKinds \cup
    { [containers |-> <<AppSpec, AppAgainSpec>>, usage |-> <<AppUsage>>],
      [containers |-> <<AppSpec>>, usage |-> <<AppUsage, AppAgainUsage>>] }

DuplicatePodLists ==
    { [i \in 1..Len(ks) |-> [name |-> PodNames[i],
                             containers |-> ks[i].containers,
                             usage |-> ks[i].usage]] :
      ks \in SeqsUpTo(DuplicatePodKinds, MaxPods) }

DuplicateListNamespaces == ListNamespacesFrom({<<NamespaceNames[1]>>})

DuplicateNamespaceIter == NamespaceIterFrom(DuplicatePodLists)

DuplicateDetailListPods == DetailListPodsFrom(DuplicatePodLists)

DuplicateNext ==
    \/ BuildConfig
    \/ NewClientset
    \/ NewMetricsClientset
    \/ DuplicateListNamespaces
    \/ DuplicateNamespaceIter
    \/ DuplicateDetailListPods
    \/ PodIter
    \/ PrintTitle
    \/ Render
    \/ PrintErrors

DuplicateSpec == Init /\ [][DuplicateNext]_vars

(***************************************************************************)
(* listNamespaceMetrics called a second time in the same process, over the *)
(* same namespaces and with every fetch answering as it did the first      *)
(* time.  In ScenarioPodLists a pod list is determined by its length, so   *)
(* the history of the first call fixes the answers of the second.          *)
(***************************************************************************)
TablesDone == Cardinality({ k \in DOMAIN out : out[k].kind = "bottom" })

\* The length of the history when the first call returned.
FirstRunLog ==
    LET starts == { i \in LogIndexes("listPods") : fetchLog[i].ns = namespaces[1] }
    IN  IF Cardinality(starts) <= 1 THEN Len(fetchLog)
        ELSE (CHOOSE i \in starts : \A h \in starts : h <= i) - 1

\* the second call: the locals of listNamespaceMetrics start afresh
ListAgain ==
    /\ pc = "summary"
    /\ argument = ""
    /\ TablesDone = 1
    /\ podTableData' = <<ListHeader>>
    /\ nsIdx' = 1
    /\ pc' = IF namespaces = <<>> THEN "load" ELSE "namespaces"
    /\ UNCHANGED <<spinnerIdx, argument, config, clientset, metricsClientset, errorsList,
                   namespaces, pods, podIdx, totals, exitStatus, fetchLog>>
    /\ UNCHANGED renderVars

FirstNamespaceIter ==
    /\ TablesDone = 0
    /\ NamespaceIterFrom(ScenarioPodLists)

\* an iteration of the second call: its fetches answer as those of the first
ReplayNamespaceIter ==
    /\ TablesDone = 1
    /\ NamespaceIterFrom(ScenarioPodLists)
    /\ \A i \in (Len(fetchLog) + 1)..Len(fetchLog') :
           fetchLog'[i] = fetchLog'[i - FirstRunLog + 1]

TwiceNext ==
    \/ BuildConfig
    \/ NewClientset
    \/ NewMetricsClientset
    \/ ScenarioListNamespaces
    \/ FirstNamespaceIter
    \/ ListAgain
    \/ ReplayNamespaceIter
    \/ Render
    \/ PrintErrors

TwiceSpec == ScenarioInit /\ [][TwiceNext]_vars

(***************************************************************************)
(* The spinner goroutine beside main.  The specifications above follow     *)
(* main alone; here the writes of the spinner are interleaved with the     *)
(* steps of list mode, at most MaxSpins of them.                           *)
(***************************************************************************)
SpinnerChars == <<"|", "/", "-", "\\">>

SpinnerWrites == Cardinality({ k \in DOMAIN out : out[k].kind = "spinner" })

\* goSpinner: one turn of its endless loop, while the process lives
GoSpinner ==
    /\ pc \notin {"exited", "panic"}
    /\ SpinnerWrites < MaxSpins
    /\ out' = Append(out, Line("spinner", SpinnerChars[spinnerIdx + 1] \o " ", "plain"))
    /\ spinnerIdx' = (spinnerIdx + 1) % Len(SpinnerChars)
    /\ UNCHANGED <<pc, argument, config, clientset, metricsClientset, errorsList,
                   namespaces, nsIdx, pods, podIdx, totals, podTableData,
                   columnWidths, alternateColor, rowIdx, exitStatus, fetchLog>>

SpinnerNext == ScenarioNext \/ GoSpinner

SpinnerSpec == ScenarioInit /\ [][SpinnerNext]_vars


(***************************************************************************)
(* The renderer alone, on any table: a header and up to MaxRows body rows  *)
(* of up to MaxCols cells.                                                 *)
(***************************************************************************)
CellTexts == {"", "ab", "abcd"}

Tables ==
    UNION { [1..(r + 1) -> [1..c -> CellTexts]] : r \in 0..MaxRows, c \in 1..MaxCols }

RenderInit ==
    /\ pc = "load"
    /\ argument = ""
    /\ config = "ok"
    /\ clientset = "ok"
    /\ metricsClientset = "ok"
    /\ errorsList = <<>>
    /\ namespaces = <<>>
    /\ nsIdx = 1
    /\ pods = <<>>
    /\ podIdx = 1
    /\ totals = ZeroTotals
    /\ podTableData \in Tables
    /\ columnWidths = <<>>
    /\ alternateColor = TRUE
    /\ rowIdx = 1
    /\ out = <<>>
    /\ exitStatus = -1
    /\ spinnerIdx = 0
    /\ fetchLog = <<>>

RenderSpec == RenderInit /\ [][Render]_vars

(***************************************************************************)
(* Properties.  What the claims expect is stated from the backing data and *)
(* the fetch history, not with the loops of the driver.                    *)
(***************************************************************************)
RECURSIVE SumInts(_)
SumInts(seq) == IF seq = <<>> THEN 0 ELSE Head(seq) + SumInts(Tail(seq))

RECURSIVE Flatten(_)
Flatten(seqs) == IF seqs = <<>> THEN <<>> ELSE Head(seqs) \o Flatten(Tail(seqs))

FailedFetches == LET Failed(c) == ~c.ok IN SelectSeq(fetchLog, Failed)

ErrorsOfFailedFetches ==
    [i \in 1..Len(FailedFetches) |->
        [op |-> FailedFetches[i].op, ns |-> FailedFetches[i].ns, pod |-> FailedFetches[i].pod]]

ClientsBuilt == config = "ok" /\ clientset = "ok" /\ metricsClientset = "ok"

InitFailed == config = "nil" \/ clientset = "nil" \/ metricsClientset = "nil"

TableRendered == \E i \in DOMAIN out : out[i].kind = "bottom"

AllItemsVisited ==
    IF argument = ""
    THEN Cardinality(LogIndexes("listPods")) = Len(namespaces)
    ELSE Cardinality(LogIndexes("getPodMetrics")) = Len(pods)

\* The declared container a usage sample correlates with.
DeclaredNames(pod) == { pod.containers[j].name : j \in DOMAIN pod.containers }

DeclaredIndex(pod, name) == CHOOSE j \in DOMAIN pod.containers : pod.containers[j].name = name

\* The ContainerRecords of a pod, given the usage samples fetched for it:
\* one per sample whose name is the name of a declared container.
ContainerRecords(pod, samples) ==
    LET Matches(u) == u.name \in DeclaredNames(pod)
        matched    == SelectSeq(samples, Matches)
    IN  [k \in 1..Len(matched) |->
            [pod |-> pod.name, usage |-> matched[k],
             container |-> pod.containers[DeclaredIndex(pod, matched[k].name)]]]

SumsOf(records) ==
    [cpuUsage   |-> SumInts([k \in DOMAIN records |-> records[k].usage.cpu]),
     cpuRequest |-> SumInts([k \in DOMAIN records |-> records[k].container.cpuRequest]),
     cpuLimit   |-> SumInts([k \in DOMAIN records |-> records[k].container.cpuLimit]),
     memUsage   |-> SumInts([k \in DOMAIN records |-> records[k].usage.mem]),
     memRequest |-> SumInts([k \in DOMAIN records |-> records[k].container.memRequest]),
     memLimit   |-> SumInts([k \in DOMAIN records |-> records[k].container.memLimit])]

\* Detail mode: entry 1 of the history is the pod listing, entry i + 1 the
\* metrics call of pod i.
DetailSamples(i) == IF fetchLog[i + 1].ok THEN pods[i].usage ELSE <<>>

DetailRecords(k) ==
    Flatten([i \in 1..k |-> ContainerRecords(pods[i], DetailSamples(i))])

DetailClosed == argument # "" /\ podTableData # <<>> /\ podIdx > Len(pods)

DetailContainerRows ==
    IF DetailClosed THEN SubSeq(podTableData, 2, Len(podTableData) - 1)
    ELSE Tail(podTableData)

\* List mode: the metrics calls of the namespace just processed are the last
\* entries of the history, one per pod and declared container in loop order.
NumCalls == SumInts([i \in DOMAIN pods |-> Len(pods[i].containers)])

CallOk(i, j) ==
    fetchLog[Len(fetchLog) - NumCalls
             + SumInts([h \in 1..(i - 1) |-> Len(pods[h].containers)]) + j].ok

\* The samples whose own container's metrics call succeeded.
ListSamples(i) ==
    LET Fetched(u) == u.name \in DeclaredNames(pods[i])
                         => CallOk(i, DeclaredIndex(pods[i], u.name))
    IN  SelectSeq(pods[i].usage, Fetched)

ListRecords == Flatten([i \in DOMAIN pods |-> ContainerRecords(pods[i], ListSamples(i))])

ListModeRows == argument = "" /\ podTableData # <<>>

\* The pod listing of namespace k in the history.
ListingOf(k) ==
    fetchLog[CHOOSE i \in LogIndexes("listPods") : fetchLog[i].ns = namespaces[k]]

\* The position of main as a number that every step lowers.
PcRank ==
    CASE pc = "buildConfig" -> 14
      [] pc = "newClientset" -> 13
      [] pc = "newMetricsClientset" -> 12
      [] pc = "fetch" -> 11
      [] pc = "namespaces" -> 10
      [] pc = "pods" -> 10
      [] pc = "load" -> 9
      [] pc = "title" -> 8
      [] pc = "top" -> 7
      [] pc = "header" -> 6
      [] pc = "delimiter" -> 5
      [] pc = "rows" -> 4
      [] pc = "summary" -> 3
      [] pc = "exited" -> 1
      [] pc = "panic" -> 0

\* More than the loop indexes together can reach.
IndexRoom == 4 * (MaxNamespaces + MaxPods) + 12

StepsLeft == PcRank * IndexRoom + (IndexRoom - nsIdx - podIdx - rowIdx)

\* C1: once the clients are built, whatever fetches fail, the run never
\* panics and never stops before its end: every failed fetch is recorded in
\* the error list, every step brings the end nearer, and at the end every
\* work item was visited, the table is rendered and the exit status is 0.
C1_FetchFailureNeverAborts ==
    /\ [](ClientsBuilt =>
            /\ pc # "panic"
            /\ exitStatus \in {-1, 0}
            /\ errorsList = ErrorsOfFailedFetches
            /\ pc # "exited" => ENABLED Next
            /\ pc = "exited" => exitStatus = 0 /\ TableRendered /\ AllItemsVisited)
    /\ [](StepsLeft >= 0)
    /\ [][StepsLeft' < StepsLeft]_vars

C1_Witness ==
    /\ pc = "exited"
    /\ exitStatus = 0
    /\ ClientsBuilt
    /\ TableRendered
    /\ \E i \in LogIndexes("listPods") : ~fetchLog[i].ok
    /\ \E i \in LogIndexes("getPodMetrics") : ~fetchLog[i].ok

\* C2: a failed construction of the configuration or of a client halts the
\* run with a non-zero status before any data fetch is issued, and nothing
\* else ends the run early.
C2_FatalInitHaltsBeforeFetch ==
    /\ InitFailed => fetchLog = <<>>
    /\ InitFailed /\ pc \in {"exited", "panic"} => exitStatus # 0
    /\ exitStatus \notin {-1, 0} => InitFailed

\* C3: in detail mode the container rows are, pod after pod, one row for
\* each usage sample whose name is the name of a declared container of the
\* pod, and no other row.
C3_DetailCorrelation ==
    argument # "" /\ podTableData # <<>> =>
        [r \in DOMAIN DetailContainerRows |->
            <<DetailContainerRows[r][1], DetailContainerRows[r][2]>>]
        = [k \in DOMAIN DetailRecords(podIdx - 1) |->
            <<DetailRecords(podIdx - 1)[k].pod, DetailRecords(podIdx - 1)[k].usage.name>>]

\* declared {app, db}, samples {app, proxy}: the row of app only
C3_Witness ==
    /\ DetailClosed
    /\ Len(pods) = 1
    /\ pods[1].containers = <<AppSpec, DbSpec>>
    /\ pods[1].usage = <<AppUsage, ProxyUsage>>
    /\ fetchLog[2].ok
    /\ Len(podTableData) = 3
    /\ podTableData[2][2] = "app"

\* C4: in list mode the data rows are exactly the namespaces processed so
\* far whose listing held at least one pod, and no row has pod count 0.
C4_EmptyNamespaceOmitted ==
    ListModeRows =>
        LET HasPods(k) == ListingOf(k).n > 0
            listed     == { k \in 1..(nsIdx - 1) : HasPods(k) }
        IN  /\ Len(BodyRows(podTableData)) = Cardinality(listed)
            /\ \A r \in DOMAIN BodyRows(podTableData) :
                /\ BodyRows(podTableData)[r][2] # "0"
                /\ \E k \in listed :
                    /\ BodyRows(podTableData)[r][1] = namespaces[k]
                    /\ r = Cardinality({ h \in listed : h <= k })

C4_Witness ==
    /\ argument = ""
    /\ pc = "exited"
    /\ Len(namespaces) = 2
    /\ ListingOf(1).ok /\ ListingOf(1).n = 0
    /\ ListingOf(2).n > 0
    /\ Len(podTableData) = 2

\* C5: the row of the namespace just processed carries its number of pods
\* and the six sums over the ContainerRecords of its pods.
C5_ListRowSums ==
    ListModeRows /\ nsIdx > 1 /\ pods # <<>> /\ exitStatus # 2 =>
        podTableData[Len(podTableData)] =
            <<namespaces[nsIdx - 1], ToString(Len(pods)),
              ToString(SumsOf(ListRecords).cpuUsage) \o " m",
              ToString(SumsOf(ListRecords).cpuRequest) \o " m",
              ToString(SumsOf(ListRecords).cpuLimit) \o " m",
              BytesSize(SumsOf(ListRecords).memUsage),
              BytesSize(SumsOf(ListRecords).memRequest),
              BytesSize(SumsOf(ListRecords).memLimit)>>

\* two pods of one container each at 100m/200m/300m, 50/100/150 MiB
C5_Witness ==
    /\ argument = ""
    /\ nsIdx = 2
    /\ Len(pods) = 2
    /\ \A i \in 1..2 : pods[i].containers = <<AppSpec>> /\ pods[i].usage = <<AppUsage>>
    /\ podTableData[Len(podTableData)] =
           <<"prod", "2", "200 m", "400 m", "600 m", "100MiB", "200MiB", "300MiB">>

\* C6: the closed detail table is the header, one row per ContainerRecord,
\* and last the Total row with the six sums over those records.
C6_DetailTotalRow ==
    DetailClosed =>
        LET records == DetailRecords(Len(pods))
            sums    == SumsOf(records)
        IN  /\ Len(podTableData) = Len(records) + 2
            /\ \A k \in DOMAIN records :
                podTableData[k + 1] =
                    <<records[k].pod, records[k].usage.name,
                      ToString(records[k].usage.cpu) \o " m",
                      ToString(records[k].container.cpuRequest) \o " m",
                      ToString(records[k].container.cpuLimit) \o " m",
                      BytesSize(records[k].usage.mem),
                      BytesSize(records[k].container.memRequest),
                      BytesSize(records[k].container.memLimit)>>
            /\ podTableData[Len(podTableData)] =
                   <<"Total", "",
                     ToString(sums.cpuUsage) \o " m",
                     ToString(sums.cpuRequest) \o " m",
                     ToString(sums.cpuLimit) \o " m",
                     HumanSize(sums.memUsage),
                     HumanSize(sums.memRequest),
                     HumanSize(sums.memLimit)>>

C6_Witness ==
    /\ DetailClosed
    /\ pc = "exited"
    /\ Len(pods) = 2
    /\ Len(DetailRecords(1)) > 0
    /\ Len(DetailRecords(2)) > Len(DetailRecords(1))
    /\ podTableData[Len(podTableData)][1] = "Total"
    /\ podTableData[Len(podTableData)][3] # "0 m"

\* C7: in list mode, when the clients are built, the namespace listing
\* succeeds, every listed namespace holds a pod and every metrics fetch
\* succeeds, the final table has one data row for each namespace whose pod
\* listing succeeded (N - k rows, in namespace order, with its pod count) and
\* the error list has one entry for each failed pod listing (k entries).
C7_Precondition ==
    /\ argument = ""
    /\ ClientsBuilt
    /\ pc \in {"load", "top", "header", "delimiter", "rows", "summary", "exited"}
    /\ \A i \in LogIndexes("listNamespaces") : fetchLog[i].ok
    /\ \A i \in LogIndexes("listPods") : fetchLog[i].ok => fetchLog[i].n > 0
    /\ \A i \in LogIndexes("getPodMetrics") : fetchLog[i].ok

C7_PartialListing ==
    C7_Precondition =>
        LET succeeded == { k \in DOMAIN namespaces : ListingOf(k).ok }
            failed    == { k \in DOMAIN namespaces : ~ListingOf(k).ok }
        IN  /\ Len(BodyRows(podTableData)) = Len(namespaces) - Cardinality(failed)
            /\ Len(errorsList) = Cardinality(failed)
            /\ \A k \in succeeded :
                LET r == Cardinality({ h \in succeeded : h <= k })
                IN  /\ BodyRows(podTableData)[r][1] = namespaces[k]
                    /\ BodyRows(podTableData)[r][2] = ToString(ListingOf(k).n)

\* three namespaces, the pod listing of the second fails: 2 rows, 1 entry
C7_Witness ==
    /\ C7_Precondition
    /\ pc = "exited"
    /\ Len(namespaces) = 3
    /\ ListingOf(1).ok /\ ~ListingOf(2).ok /\ ListingOf(3).ok
    /\ Len(podTableData) = 3
    /\ Len(errorsList) = 1

(***************************************************************************)
(* Properties of the renderer.                                             *)
(***************************************************************************)
\* Width of a rendered line: the first bar, then width + 3 per column.
LineWidth == 1 + SumInts([i \in DOMAIN columnWidths |-> columnWidths[i] + 3])

\* Number of characters of a row line before the segment of column i.
Offset(i) == 1 + SumInts([j \in 1..(i - 1) |-> columnWidths[j] + 3])

\* The table row a row line shows: line 2 is the header, line 4 the first
\* body row.
RowOfLine(k) == IF k = 2 THEN podTableData[1] ELSE podTableData[k - 2]

\* The lines of a rendered table, in order.
ExpectedLines ==
    <<<<"top", DelimiterText(columnWidths)>>,
      <<"row", DataRowText(podTableData[1], columnWidths)>>,
      <<"delimiter", DelimiterText(columnWidths)>>>>
    \o [r \in 1..(Len(podTableData) - 1) |->
            <<"row", DataRowText(podTableData[r + 1], columnWidths)>>]
    \o <<<<"bottom", DelimiterText(columnWidths)>>>>

\* C8: the lines come out as top border, header row, separator, the body
\* rows in table order, bottom border: what is written is always a prefix of
\* that sequence, the renderer goes on until all of it is written, and then
\* nothing more is written.
C8_RenderOrder ==
    /\ out # <<>> =>
        /\ Len(out) <= Len(ExpectedLines)
        /\ \A k \in DOMAIN out : <<out[k].kind, out[k].text>> = ExpectedLines[k]
    /\ pc = "summary" => Len(out) = Len(ExpectedLines)
    /\ pc # "summary" => ENABLED Render

C8_Witness ==
    /\ pc = "summary"
    /\ Len(podTableData) = 3
    /\ podTableData[2] # podTableData[3]
    /\ podTableData[1] # podTableData[2]
    /\ Len(out) = 6

\* C9: every line of the table is 1 + the sum of (width + 3) characters
\* wide, and in a row line each cell starts one space after the bar, is
\* followed by spaces up to the column width, one more space and a bar.
C9_RowWidth ==
    \A k \in DOMAIN out :
        /\ Len(out[k].text) = LineWidth
        /\ SubSeq(out[k].text, 1, 1) \in {"|", "+"}
        /\ out[k].kind = "row" =>
            \A i \in DOMAIN columnWidths :
                LET cell == RowOfLine(k)[i]
                    o    == Offset(i)
                    w    == columnWidths[i]
                IN  /\ SubSeq(out[k].text, o + 1, o + 1) = " "
                    /\ SubSeq(out[k].text, o + 2, o + 1 + Len(cell)) = cell
                    /\ SubSeq(out[k].text, o + 2 + Len(cell), o + 2 + w)
                           = Repeat(" ", w + 1 - Len(cell))
                    /\ SubSeq(out[k].text, o + 3 + w, o + 3 + w) = "|"

C9_Witness ==
    /\ pc = "summary"
    /\ Len(podTableData) = 3
    /\ Len(columnWidths) = 2
    /\ Len(podTableData[2][1]) < Len(podTableData[3][1])
    /\ Len(podTableData[3][2]) < Len(podTableData[1][2])
    /\ Len(out[4].text) = LineWidth

\* C10: once computed, the width of column i is the greatest length of a
\* cell of column i over all rows, the header included: no cell is longer
\* and one cell has exactly that length.
C10_ColumnWidthIsMax ==
    pc # "load" =>
        /\ Len(columnWidths) = Len(podTableData[1])
        /\ \A i \in DOMAIN columnWidths :
            /\ \A r \in DOMAIN podTableData : Len(podTableData[r][i]) <= columnWidths[i]
            /\ \E r \in DOMAIN podTableData : Len(podTableData[r][i]) = columnWidths[i]

\* the header is the longest cell of column 1, a body cell of column 2
C10_Witness ==
    /\ pc = "summary"
    /\ Len(podTableData) = 3
    /\ Len(columnWidths) = 2
    /\ \A r \in 2..3 : Len(podTableData[r][1]) < Len(podTableData[1][1])
    /\ Len(podTableData[1][2]) < Len(podTableData[3][2])
    /\ columnWidths = <<Len(podTableData[1][1]), Len(podTableData[3][2])>>

(***************************************************************************)
(* Row styles.                                                             *)
(***************************************************************************)
\* The body row lines of the output: line 4 of the table is body row 0.
BodyLineIndexes == { k \in DOMAIN out : k >= 4 /\ out[k].kind = "row" }

\* C11: the body row at 0-based index k is printed with the highlighted
\* background exactly when k is odd; the first body row is plain.
C11_BodyRowsStartPlain ==
    \A k \in BodyLineIndexes : (out[k].style = "gray") <=> ((k - 4) % 2 = 1)

\* The greatest length of the raw text of a cell of column i.
RawWidth(i) ==
    CHOOSE w \in { Len(podTableData[r][i]) : r \in DOMAIN podTableData } :
        \A r \in DOMAIN podTableData : Len(podTableData[r][i]) <= w

\* C12: the column widths are those of the raw cell text alone, and the row
\* lines printed with the gray background are exactly as wide as the plain
\* ones: the colour escape is never counted.
C12_StyleKeepsWidths ==
    pc # "load" =>
        /\ columnWidths = [i \in 1..Len(podTableData[1]) |-> RawWidth(i)]
        /\ \A k \in DOMAIN out :
            out[k].kind = "row" =>
                Len(out[k].text)
                    = 1 + SumInts([i \in 1..Len(podTableData[1]) |-> RawWidth(i) + 3])

\* a gray row holds the longest cell of column 1, and a plain body row follows
C12_Witness ==
    /\ pc = "summary"
    /\ Len(podTableData) = 3
    /\ out[4].style = "gray"
    /\ out[5].style = "plain"
    /\ Len(podTableData[2][1]) > Len(podTableData[1][1])
    /\ Len(podTableData[2][1]) > Len(podTableData[3][1])
    /\ columnWidths[1] = Len(podTableData[2][1])

(***************************************************************************)
(* A table without body rows.                                              *)
(***************************************************************************)
\* The kinds of the table lines written so far, in order.
TableLineKinds ==
    LET OfTable(l) == l.kind \in {"top", "row", "delimiter", "bottom"}
        lines      == SelectSeq(out, OfTable)
    IN  [k \in DOMAIN lines |-> lines[k].kind]

\* List mode is past its namespace loop and the table holds the header only.
HeaderOnlyTable ==
    /\ argument = ""
    /\ pc \in {"load", "top", "header", "delimiter", "rows", "summary", "exited"}
    /\ Len(podTableData) = 1

\* C13 as claimed: a table with a header and no body row is rendered
\* without error as the top border, the header row and the bottom border only.
C13_HeaderOnlyThreeLines ==
    HeaderOnlyTable /\ pc \in {"summary", "exited"} =>
        /\ exitStatus \in {-1, 0}
        /\ TableLineKinds = <<"top", "row", "bottom">>

\* C13 amended: a table with a header and no body row is rendered without
\* error (no panic, no step at which the renderer cannot go on) as the top
\* border, the header row, the header separator and the bottom border, and
\* no body row line.
C13_HeaderOnlyRendering ==
    HeaderOnlyTable =>
        /\ exitStatus \in {-1, 0}
        /\ pc \notin {"summary", "exited"} => ENABLED Render
        /\ pc \in {"summary", "exited"} =>
            /\ TableLineKinds = <<"top", "row", "delimiter", "bottom">>
            /\ \E k \in DOMAIN out :
                /\ out[k].kind = "row"
                /\ out[k].text = DataRowText(ListHeader, columnWidths)

\* two namespaces, one without pods and one whose listing failed
C13_Witness ==
    /\ HeaderOnlyTable
    /\ pc = "exited"
    /\ Len(namespaces) = 2
    /\ \E k \in 1..2 : ~ListingOf(k).ok
    /\ \E k \in 1..2 : ListingOf(k).ok /\ ListingOf(k).n = 0
    /\ TableLineKinds = <<"top", "row", "delimiter", "bottom">>

(***************************************************************************)
(* The memory formatter of a run.                                          *)
(***************************************************************************)
\* C14: in the closed detail table every memory cell, those of the
\* container rows and those of the Total row, is written by one and the same
\* formatter: all by the binary-prefix one or all by the decimal-prefix one.
C14_OneMemoryFormatter ==
    DetailClosed =>
        LET records == DetailRecords(Len(pods))
            sums    == SumsOf(records)
            last    == Len(podTableData)
            Values(r) ==
                IF r = last
                THEN <<sums.memUsage, sums.memRequest, sums.memLimit>>
                ELSE <<records[r - 1].usage.mem,
                       records[r - 1].container.memRequest,
                       records[r - 1].container.memLimit>>
            AllBy(F(_)) ==
                \A r \in 2..last : \A c \in 1..3 :
                    podTableData[r][5 + c] = F(Values(r)[c])
        IN  AllBy(BytesSize) \/ AllBy(HumanSize)

(***************************************************************************)
(* The spinner and the table.                                              *)
(***************************************************************************)
\* C15: the spinner is stopped before the first line of the table: no
\* spinner write follows a line of the table on the terminal.
C15_SpinnerStoppedBeforeTable ==
    \A j, k \in DOMAIN out :
        j < k /\ out[j].kind \in {"top", "row", "delimiter", "bottom"}
            => out[k].kind # "spinner"

(***************************************************************************)
(* Two calls of the list-mode aggregation.                                 *)
(***************************************************************************)
\* The lines of the tables on the terminal, in order.
TableLines ==
    LET OfTable(l) == l.kind \in {"top", "row", "delimiter", "bottom"}
    IN  SelectSeq(out, OfTable)

\* The number of lines of the first table.
FirstTableLen ==
    CHOOSE n \in DOMAIN TableLines :
        TableLines[n].kind = "bottom" /\ \A h \in 1..(n - 1) : TableLines[h].kind # "bottom"

\* C16: a second list-mode aggregation over the same backing data and fetch
\* outcomes writes the table of the first again, line for line: the same
\* kinds, the same text (hence the same column widths) and the same row
\* styles; and when it is over the second table is complete.
C16_ListIdempotent ==
    TablesDone >= 1 =>
        /\ \A k \in DOMAIN TableLines :
            k > FirstTableLen => TableLines[k] = TableLines[k - FirstTableLen]
        /\ TablesDone = 2 => Len(TableLines) = 2 * FirstTableLen

\* two namespaces with pods, one metrics fetch failed: two tables of six lines
C16_Witness ==
    /\ TablesDone = 2
    /\ pc = "exited"
    /\ Len(namespaces) = 2
    /\ Len(podTableData) = 3
    /\ Len(TableLines) = 12
    /\ \E i \in LogIndexes("getPodMetrics") : ~fetchLog[i].ok

(***************************************************************************)
(* The error summary.                                                      *)
(***************************************************************************)
SummaryIndexes == { k \in DOMAIN out : out[k].kind \in {"errorTitle", "error"} }

SummaryLines ==
    LET OfSummary(l) == l.kind \in {"errorTitle", "error"}
    IN  SelectSeq(out, OfSummary)

\* C17: nothing of the error summary is written before the run ends; at the
\* end it is written exactly when the error list is not empty, after the
\* bottom border of the table, as a title and one line per entry, numbered
\* from 1 in the order of the list; the exit status is 0 with or without it.
C17_ErrorSummary ==
    /\ pc # "exited" => SummaryIndexes = {}
    /\ pc = "exited" =>
        /\ exitStatus = 0
        /\ (SummaryLines # <<>>) <=> (errorsList # <<>>)
        /\ \A k \in SummaryIndexes :
            \E b \in DOMAIN out : b < k /\ out[b].kind = "bottom"
        /\ errorsList # <<>> =>
            /\ Len(SummaryLines) = Len(errorsList) + 1
            /\ SummaryLines[1].kind = "errorTitle"
            /\ \A i \in DOMAIN errorsList :
                /\ SummaryLines[i + 1].kind = "error"
                /\ SummaryLines[i + 1].text
                       = ToString(i) \o ". " \o errorsList[i].op \o " "
                         \o errorsList[i].ns \o " " \o errorsList[i].pod

\* two failed fetches: the title and two numbered lines after the table
C17_Witness ==
    /\ pc = "exited"
    /\ Len(errorsList) = 2
    /\ errorsList[1] # errorsList[2]
    /\ Len(SummaryLines) = 3
    /\ out[Len(out)].kind = "error"
    /\ out[Len(out) - 3].kind = "bottom"

(***************************************************************************)
(* The fetch calls of a run.                                               *)
(***************************************************************************)
\* C18: no fetch is issued twice: the namespaces are listed at most once,
\* the pods of a namespace at most once, the metrics of a pod at most once,
\* whether the call succeeded or failed.
C18_NoFetchRepeated ==
    \A i, j \in DOMAIN fetchLog :
        i < j => ~(/\ fetchLog[i].op = fetchLog[j].op
                   /\ fetchLog[i].ns = fetchLog[j].ns
                   /\ fetchLog[i].pod = fetchLog[j].pod)

(***************************************************************************)
(* The error list.                                                         *)
(***************************************************************************)
IsPrefix(s, t) == Len(s) <= Len(t) /\ SubSeq(t, 1, Len(s)) = s

\* C19: the error list only grows at its end (its value before a step is a
\* prefix of its value after), and when the run ends it holds exactly one
\* entry for each fetch call that failed, in the order of the calls.
C19_ErrorLogAppendOnly ==
    /\ [][IsPrefix(errorsList, errorsList')]_vars
    /\ [](pc = "exited" => errorsList = ErrorsOfFailedFetches)

(***************************************************************************)
(* The states of the renderer.                                             *)
(***************************************************************************)
RendererState ==
    CASE pc \in {"summary", "exited"} -> "Done"
      [] pc \in {"header", "delimiter", "rows"} -> "Rendering"
      [] pc \in {"title", "top"} -> "WidthsComputed"
      [] OTHER -> "Empty"

RendererRank ==
    CASE RendererState = "Empty" -> 0
      [] RendererState = "WidthsComputed" -> 1
      [] RendererState = "Rendering" -> 2
      [] RendererState = "Done" -> 3

\* The driver has finished the table: every namespace or pod was visited.
TableComplete ==
    /\ podTableData # <<>>
    /\ IF argument = "" THEN nsIdx > Len(namespaces) \/ namespaces = <<>>
       ELSE podIdx > Len(pods) /\ podTableData[Len(podTableData)][1] = "Total"

\* C20: the renderer only moves forward, one state at a time, through
\* Empty, WidthsComputed, Rendering, Done; no line of the table is written
\* before the widths are computed; the widths are computed from the complete
\* table, header and body rows; and once they are computed no step changes
\* them or the table.
C20_RendererForwardOnly ==
    /\ [][/\ RendererRank' \in {RendererRank, RendererRank + 1}
          /\ RendererRank >= 1 =>
                columnWidths' = columnWidths /\ podTableData' = podTableData]_vars
    /\ [](RendererRank = 0 => columnWidths = <<>> /\ TableLines = <<>>)
    /\ [](RendererRank = 1 => TableLines = <<>>)
    /\ [](RendererRank >= 1 =>
            /\ TableComplete
            /\ columnWidths = [i \in 1..Len(podTableData[1]) |-> RawWidth(i)])
    /\ [](RendererRank = 3 => TableLines[Len(TableLines)].kind = "bottom")

\* detail mode, between two body rows of a table of two container rows
C20_Witness ==
    /\ RendererState = "Rendering"
    /\ argument # ""
    /\ pc = "rows"
    /\ rowIdx = 2
    /\ Len(podTableData) = 4
    /\ Len(TableLines) = 4
    /\ columnWidths[1] = 5

(***************************************************************************)
(* The two modes over the same namespace.                                  *)
(***************************************************************************)
\* The totals detail mode accumulates over the pods from i on.
RECURSIVE DetailFold(_, _, _)
DetailFold(t, items, i) ==
    IF i > Len(items) THEN t
    ELSE DetailFold(DetailTotals(t, items[i], PodMetricsGet(items[i], FALSE)), items, i + 1)

\* The totals list mode accumulates over the pods, every metrics call
\* succeeding.
ListFold(items) ==
    LET calls == MetricsCalls(items, 1)
    IN  ListTotals(ZeroTotals, items, calls, [k \in 1..Len(calls) |-> FALSE])

AllFetchesOk == \A i \in DOMAIN fetchLog : fetchLog[i].ok

\* C21: every fetch succeeding, the six sums of list mode over the pods of
\* a namespace are the six totals of detail mode over the same pods: the
\* totals of the closed detail table are those list mode computes, and the
\* row list mode appends carries the totals detail mode computes.
C21_ModesAgree ==
    AllFetchesOk =>
        /\ DetailClosed => totals = ListFold(pods)
        /\ ListModeRows /\ nsIdx > 1 /\ pods # <<>> /\ exitStatus # 2 =>
              podTableData[Len(podTableData)]
                  = ListRow(namespaces[nsIdx - 1], pods, DetailFold(ZeroTotals, pods, 1))

(***************************************************************************)
(* The Pods cell of a list-mode row.                                       *)
(***************************************************************************)
\* The namespaces list mode has gone through that answered at least one pod.
NamespacesWithPods ==
    { k \in 1..(nsIdx - 1) : ListingOf(k).ok /\ ListingOf(k).n > 0 }

\* C22: in list mode every namespace gone through whose listing answered at
\* least one pod has its row, in namespace order, and the Pods cell of the
\* row is the number of pods listed, whatever became of their metrics; when
\* none of the pods of the namespace just processed yielded a
\* ContainerRecord its six sums are zero.
C22_PodsCellCountsListedPods ==
    ListModeRows /\ exitStatus # 2 =>
        /\ Len(podTableData) = 1 + Cardinality(NamespacesWithPods)
        /\ \A k \in NamespacesWithPods :
            LET r == 1 + Cardinality({ h \in NamespacesWithPods : h <= k })
            IN  /\ podTableData[r][1] = namespaces[k]
                /\ podTableData[r][2] = ToString(ListingOf(k).n)
        /\ nsIdx > 1 /\ pods # <<>> /\ ListRecords = <<>> =>
              podTableData[Len(podTableData)]
                  = <<namespaces[nsIdx - 1], ToString(Len(pods)),
                      "0 m", "0 m", "0 m", "0B", "0B", "0B">>

\* two pods listed: the metrics fetch of one failed, the samples of the
\* other match no declared container; the row counts 2 pods, all sums zero
C22_Witness ==
    /\ argument = ""
    /\ ClientsBuilt
    /\ nsIdx = 2
    /\ Len(pods) = 2
    /\ pods[1].containers = <<AppSpec>>
    /\ ~CallOk(1, 1)
    /\ pods[2].containers = <<DbSpec>> /\ pods[2].usage = <<ProxyUsage>>
    /\ CallOk(2, 1)
    /\ podTableData[2] = <<"prod", "2", "0 m", "0 m", "0 m", "0B", "0B", "0B">>

====
